---------------------------- MODULE Spec2Model ----------------------------
(***************************************************************************)
(* Flow Manager: the flow execution engine (app/services/flow_manager.py), *)
(* the task registry (app/services/task_registry.py) and the flow and      *)
(* execution data model (app/models/flow.py, app/models/execution.py).     *)
(*                                                                         *)
(* A run is one call of FlowManager.execute_flow.  The engine is a         *)
(* coroutine: it only yields control while it awaits a registered task     *)
(* implementation, so an action of the model is the code executed between  *)
(* two such suspension points (pc "in_task"); the iteration of a task that *)
(* is not registered awaits nothing and ends an action of its own (pc      *)
(* "loop"), where no other coroutine can run in the program.               *)
(*                                                                         *)
(* Python values: None is the string "None" for Optional[str] / datetime / *)
(* dict fields; an Optional object returned by a lookup is the empty       *)
(* sequence (None) or a one-element sequence holding the object.           *)
(***************************************************************************)
EXTENDS Integers, Sequences, FiniteSets, TLC

VARIABLES
    TASK_REGISTRY,      \* task_registry._TASK_REGISTRY: task name -> implementation
    execution_states,   \* FlowManager.execution_states: execution id -> FlowExecutionState
    frames,             \* per run: the locals of execute_flow / _run_flow
    returned,           \* per run: the ExecutionResult execute_flow returned
    calls,              \* the calls clients made besides execute_flow, with what they got
    fake_users_db       \* auth_service.fake_users_db: username -> UserInDB

vars == <<TASK_REGISTRY, execution_states, frames, returned, calls, fake_users_db>>

-----------------------------------------------------------------------------
(* Python values *)

None == "None"
NoObject == <<>>
Some(x) == <<x>>

\* ExecutionStatus (str, Enum): the member's .value is the string itself
SUCCESS == "success"
FAILURE == "failure"
RUNNING == "running"
PENDING == "pending"

\* datetime.now(...) / datetime.utcnow(): some timestamp, never None
Timestamp == "utcnow"

EmptyDict == "{}"
Rows == "{'rows': 3}"

\* truthiness of an Optional[dict]: None and {} are falsy
Truthy(d) == d \notin {None, EmptyDict}

-----------------------------------------------------------------------------
(* Bounds of the model *)

\* names a flow may give its tasks and implementations may be registered under
Names == {"A", "B"}

\* names a condition may route to: a task name or the sentinel
Targets == Names \cup {"end"}

\* longest conditions list of a flow
MaxConds == 2

\* execution ids uuid4 is taken to generate
ExecIds == {"exec_1"}

-----------------------------------------------------------------------------
(* app/models/flow.py *)

\* validate_outcome that asks only for a literal that is not empty
validate_outcome_NotEmpty(v) == v # ""

\* Condition.validate_outcome
validate_outcome(v) == v \in {"success", "failure"}

\* Flow.validate_tasks_not_empty
validate_tasks_not_empty(v) == v # <<>>

\* Flow.validate_start_task_exists: `values` holds the fields validated before
\* start_task; a field missing from it is not checked against
validate_start_task_exists(v, values) ==
    IF "tasks" \in DOMAIN values
    THEN \E i \in 1..Len(values["tasks"]) : values["tasks"][i].name = v
    ELSE TRUE

\* the fields of Flow in declaration order; a validator sees the fields before its own
FlowFields == <<"id", "name", "start_task", "tasks", "conditions">>

FieldsBefore(field) ==
    LET k == CHOOSE i \in 1..Len(FlowFields) : FlowFields[i] = field
    IN  {FlowFields[i] : i \in 1..(k - 1)}

\* Flow(**flow_data): every field validator accepts
FlowConstructs(raw) ==
    /\ \A i \in 1..Len(raw.conditions) : validate_outcome(raw.conditions[i].outcome)
    /\ validate_tasks_not_empty(raw.tasks)
    /\ validate_start_task_exists(raw.start_task,
                                  [f \in FieldsBefore("start_task") |-> raw[f]])

\* Flow.get_task: linear scan, first match
Flow_get_task(flow, task_name) ==
    LET hits == {i \in 1..Len(flow.tasks) : flow.tasks[i].name = task_name}
    IN  IF hits = {} THEN NoObject
        ELSE Some(flow.tasks[CHOOSE i \in hits : \A j \in hits : i <= j])

\* get_condition_for_task returning the condition declared last for the task
get_condition_for_task_Last(flow, task_name) ==
    LET hits == {i \in 1..Len(flow.conditions) :
                    flow.conditions[i].source_task = task_name}
    IN  IF hits = {} THEN NoObject
        ELSE Some(flow.conditions[CHOOSE i \in hits : \A j \in hits : j <= i])

\* Flow.get_condition_for_task: linear scan, first match
get_condition_for_task(flow, task_name) ==
    LET hits == {i \in 1..Len(flow.conditions) :
                    flow.conditions[i].source_task = task_name}
    IN  IF hits = {} THEN NoObject
        ELSE Some(flow.conditions[CHOOSE i \in hits : \A j \in hits : i <= j])

-----------------------------------------------------------------------------
(* Task implementations: what a registered callable does when awaited.     *)
(* out.kind says how the call ended: "dict" (returned a dict), "other"     *)
(* (returned something that is no dict), "Exception" / "KeyError" (raised).*)
(* A dict key that is absent reads as None through dict.get; `status`      *)
(* holds what task_output.get('status', 'failure') sees.                   *)

Missing == "<missing>"

\* _run_flow: max_iterations
max_iterations == 100

Returned(status, data, error) ==
    [kind |-> "dict", status |-> status, data |-> data, error |-> error]

Raised(class, text) ==
    [kind |-> class, status |-> Missing, data |-> None, error |-> text]

\* a retrying implementation counts its calls in the shared context and
\* gives up at its limit
Limit(impl) ==
    CASE impl = "until_last"  -> max_iterations - 1
      [] impl = "until_bound" -> max_iterations
      [] OTHER                -> 0

Attempts(context) == IF "attempts" \in DOMAIN context THEN context["attempts"] ELSE 0

Implementations ==
    {"succeed", "fail", "raise", "raise_key", "non_dict", "no_status",
     "bad_status", "until_last", "until_bound"}

\* the outcome of awaiting task_func(context=context), and the context after it
Await(impl, context) ==
    CASE impl = "succeed" ->
            [out |-> Returned("success", Rows, None), context |-> context]
      [] impl = "fail" ->
            [out |-> Returned("failure", None, "boom"), context |-> context]
      [] impl = "raise" ->
            [out |-> Raised("Exception", "bad input"), context |-> context]
      [] impl = "raise_key" ->
            [out |-> Raised("KeyError", "'user_id'"), context |-> context]
      [] impl = "non_dict" ->
            [out |-> [kind |-> "other", status |-> Missing, data |-> None,
                      error |-> "<class 'NoneType'>"],
             context |-> context]
      [] impl = "no_status" ->
            [out |-> Returned(Missing, None, None), context |-> context]
      [] impl = "bad_status" ->
            [out |-> Returned("done", Rows, None), context |-> context]
      [] OTHER ->
            LET n == Attempts(context) + 1
                after == ("attempts" :> n) @@ context
            IN  IF n < Limit(impl)
                THEN [out |-> Returned("success", EmptyDict, None), context |-> after]
                ELSE [out |-> Returned("failure", None, "gave up"), context |-> after]

-----------------------------------------------------------------------------
(* app/services/task_registry.py *)

\* TaskRegistry.get_task: the callable, or NoObject for the KeyError it raises
TaskRegistry_get_task(registry, task_name) ==
    IF task_name \notin DOMAIN registry THEN NoObject ELSE Some(registry[task_name])

\* str(KeyError(f"Task '{task_name}' not found in registry")): repr of the message
KeyErrorText(task_name) == "\"Task '" \o task_name \o "' not found in registry\""

\* execute_task, the TaskResult it starts from
PendingResult(task_name) ==
    [task_name |-> task_name, status |-> PENDING, data |-> None, error |-> None,
     started_at |-> Timestamp, completed_at |-> None]

\* KeyErrorResult with the lookup failure left to the generic handler
KeyErrorResult_Generic(result, text) ==
    [result EXCEPT !.status = FAILURE,
                   !.error = "Task execution failed: " \o text,
                   !.completed_at = Timestamp]

\* execute_task, except KeyError
KeyErrorResult(result, text) ==
    [result EXCEPT !.status = FAILURE,
                   !.error = "Task not found: " \o text,
                   !.completed_at = Timestamp]

\* ExceptionResult that leaves the completion time unset
ExceptionResult_NoCompletion(result, text) ==
    [result EXCEPT !.status = FAILURE,
                   !.error = "Task execution failed: " \o text]

\* execute_task, except Exception
ExceptionResult(result, text) ==
    [result EXCEPT !.status = FAILURE,
                   !.error = "Task execution failed: " \o text,
                   !.completed_at = Timestamp]

\* DictResult taking every status other than 'failure' for a success
DictResult_NotFailure(result, out) ==
    LET status == IF out.status = Missing THEN "failure" ELSE out.status
    IN  [result EXCEPT !.status = IF status = "failure" THEN FAILURE ELSE SUCCESS,
                       !.data = out.data,
                       !.error = out.error,
                       !.completed_at = Timestamp]

\* execute_task, the isinstance(task_output, dict) branch
DictResult(result, out) ==
    LET status == IF out.status = Missing THEN "failure" ELSE out.status
    IN  [result EXCEPT !.status = IF status = "success" THEN SUCCESS ELSE FAILURE,
                       !.data = out.data,
                       !.error = out.error,
                       !.completed_at = Timestamp]

\* execute_task, the branch of an output that is no dict
InvalidOutputResult(result, out) ==
    [result EXCEPT !.status = FAILURE,
                   !.error = "Invalid task output format: " \o out.error,
                   !.completed_at = Timestamp]

\* execute_task from the return of `await task_func(context=context)` on
execute_task_resume(result, out) ==
    CASE out.kind = "dict"     -> DictResult(result, out)
      [] out.kind = "other"    -> InvalidOutputResult(result, out)
      [] out.kind = "KeyError" -> KeyErrorResult(result, out.error)
      [] OTHER                 -> ExceptionResult(result, out.error)

-----------------------------------------------------------------------------
(* app/models/execution.py and app/services/flow_manager.py                *)
(* A run is the record m = [state, frame, ret]: the FlowExecutionState in  *)
(* the store, the locals of the coroutine, and what execute_flow returned  *)
(* (NoObject while it has not returned).                                   *)

\* add_task_result putting the newest result first
add_task_result_Prepend(state, result) ==
    [state EXCEPT !.task_results = <<result>> \o @]

\* FlowExecutionState.add_task_result
add_task_result(state, result) ==
    [state EXCEPT !.task_results = Append(@, result)]

\* evaluate_condition branching on the task's success, not on the expected outcome
evaluate_condition_OnSuccess(condition, task_result) ==
    IF task_result.status = SUCCESS
    THEN condition.target_task_success
    ELSE condition.target_task_failure

\* evaluate_condition with the two targets taken for each other
evaluate_condition_Swapped(condition, task_result) ==
    LET task_status == task_result.status
        expected_outcome == condition.outcome
    IN  IF task_status = expected_outcome
        THEN condition.target_task_failure
        ELSE condition.target_task_success

\* FlowManager._evaluate_condition
evaluate_condition(condition, task_result) ==
    LET task_status == task_result.status
        expected_outcome == condition.outcome
    IN  IF task_status = expected_outcome
        THEN condition.target_task_success
        ELSE condition.target_task_failure

\* FlowManager._generate_result_message
generate_result_message(state) ==
    LET failed == {i \in 1..Len(state.task_results) :
                      state.task_results[i].status = FAILURE}
        first == CHOOSE i \in failed : \A j \in failed : i <= j
    IN  CASE state.status = SUCCESS ->
                "Flow '" \o state.flow_name \o "' completed successfully. Executed "
                    \o ToString(Len(state.task_results)) \o " task(s)."
          [] state.status = FAILURE ->
                IF failed # {}
                THEN "Flow '" \o state.flow_name \o "' failed at task '"
                        \o state.task_results[first].task_name \o "'."
                ELSE "Flow '" \o state.flow_name \o "' failed."
          [] OTHER ->
                "Flow '" \o state.flow_name \o "' status: " \o state.status

\* NormalReturn that does not stamp the completion time
NormalReturn_NoCompletion(m) ==
    LET s1 == IF m.state.status = RUNNING
              THEN [m.state EXCEPT !.status = SUCCESS]
              ELSE m.state
    IN  [state |-> s1,
         frame |-> [m.frame EXCEPT !.pc = "done"],
         ret   |-> Some([execution_id |-> s1.execution_id,
                         flow_id |-> m.frame.flow.id,
                         status |-> s1.status,
                         message |-> generate_result_message(s1),
                         execution_state |-> s1])]

\* NormalReturn that leaves the status as _run_flow left it
NormalReturn_StatusKept(m) ==
    LET s2 == [m.state EXCEPT !.completed_at = Timestamp]
    IN  [state |-> s2,
         frame |-> [m.frame EXCEPT !.pc = "done"],
         ret   |-> Some([execution_id |-> s2.execution_id,
                         flow_id |-> m.frame.flow.id,
                         status |-> s2.status,
                         message |-> generate_result_message(s2),
                         execution_state |-> s2])]

\* execute_flow, the rest of the try block once _run_flow has returned
NormalReturn(m) ==
    LET s1 == IF m.state.status = RUNNING
              THEN [m.state EXCEPT !.status = SUCCESS]
              ELSE m.state
        s2 == [s1 EXCEPT !.completed_at = Timestamp]
    IN  [state |-> s2,
         frame |-> [m.frame EXCEPT !.pc = "done"],
         ret   |-> Some([execution_id |-> s2.execution_id,
                         flow_id |-> m.frame.flow.id,
                         status |-> s2.status,
                         message |-> generate_result_message(s2),
                         execution_state |-> s2])]

\* ExceptReturn that reports the failure without marking the state failed
ExceptReturn_ResultOnly(m, e) ==
    LET s1 == [m.state EXCEPT !.error = e, !.completed_at = Timestamp]
    IN  [state |-> s1,
         frame |-> [m.frame EXCEPT !.pc = "done", !.e = e],
         ret   |-> Some([execution_id |-> s1.execution_id,
                         flow_id |-> m.frame.flow.id,
                         status |-> FAILURE,
                         message |-> "Flow execution failed: " \o e,
                         execution_state |-> s1])]

\* ExceptReturn that marks the run failed and forgets the fault's text
ExceptReturn_NoText(m, e) ==
    LET s1 == [m.state EXCEPT !.status = FAILURE, !.completed_at = Timestamp]
    IN  [state |-> s1,
         frame |-> [m.frame EXCEPT !.pc = "done", !.e = e],
         ret   |-> Some([execution_id |-> s1.execution_id,
                         flow_id |-> m.frame.flow.id,
                         status |-> FAILURE,
                         message |-> "Flow execution failed: " \o e,
                         execution_state |-> s1])]

\* execute_flow, except Exception as e
ExceptReturn(m, e) ==
    LET s1 == [m.state EXCEPT !.status = FAILURE,
                              !.error = e,
                              !.completed_at = Timestamp]
    IN  [state |-> s1,
         frame |-> [m.frame EXCEPT !.pc = "done", !.e = e],
         ret   |-> Some([execution_id |-> s1.execution_id,
                         flow_id |-> m.frame.flow.id,
                         status |-> FAILURE,
                         message |-> "Flow execution failed: " \o e,
                         execution_state |-> s1])]

IterationError ==
    "Flow execution exceeded maximum iterations. Possible infinite loop detected."

TaskNotInFlowError(task_name) == "Task '" \o task_name \o "' not found in flow"

\* _run_flow, the iteration check behind the loop: whether it raises
IterationsExhausted(iteration_count) == iteration_count >= max_iterations

\* _run_flow from the end of the while loop on, and the return through execute_flow
AfterLoop(m) ==
    LET m1 == [m EXCEPT !.state.current_task = None]
    IN  IF IterationsExhausted(m.frame.iteration_count)
        THEN ExceptReturn(m1, IterationError)
        ELSE NormalReturn(m1)

\* FinishStep that gives the run up when the task failed
FinishStep_FailFast(m, task_result) ==
    LET name == m.frame.current_task_name
        s1 == add_task_result(m.state, task_result)
        condition == get_condition_for_task(m.frame.flow, name)
    IN  IF condition = NoObject \/ task_result.status = FAILURE
        THEN [m EXCEPT !.state = s1, !.frame.broke = TRUE]
        ELSE [m EXCEPT !.state = s1,
                       !.frame.current_task_name =
                            evaluate_condition(condition[1], task_result)]

\* FinishStep that records the results of successful tasks only
FinishStep_SuccessOnly(m, task_result) ==
    LET name == m.frame.current_task_name
        s1 == IF task_result.status = SUCCESS
              THEN add_task_result(m.state, task_result)
              ELSE m.state
        c1 == IF Truthy(task_result.data)
              THEN ((name \o "_result") :> task_result.data) @@ m.frame.context
              ELSE m.frame.context
        condition == get_condition_for_task(m.frame.flow, name)
    IN  IF condition = NoObject
        THEN [m EXCEPT !.state = s1, !.frame.context = c1, !.frame.broke = TRUE]
        ELSE [m EXCEPT !.state = s1, !.frame.context = c1,
                       !.frame.current_task_name =
                            evaluate_condition(condition[1], task_result)]

\* FinishStep that keeps the data of the last task under one key for all tasks
FinishStep_SharedKey(m, task_result) ==
    LET name == m.frame.current_task_name
        s1 == add_task_result(m.state, task_result)
        c1 == IF Truthy(task_result.data)
              THEN ((name \o "_result") :> task_result.data)
                       @@ ("last_result" :> task_result.data) @@ m.frame.context
              ELSE m.frame.context
        condition == get_condition_for_task(m.frame.flow, name)
    IN  IF condition = NoObject
        THEN [m EXCEPT !.state = s1, !.frame.context = c1, !.frame.broke = TRUE]
        ELSE [m EXCEPT !.state = s1, !.frame.context = c1,
                       !.frame.current_task_name =
                            evaluate_condition(condition[1], task_result)]

\* _run_flow, the loop body from add_task_result to the end of the iteration
FinishStep(m, task_result) ==
    LET name == m.frame.current_task_name
        s1 == add_task_result(m.state, task_result)
        c1 == IF Truthy(task_result.data)
              THEN ((name \o "_result") :> task_result.data) @@ m.frame.context
              ELSE m.frame.context
        condition == get_condition_for_task(m.frame.flow, name)
    IN  IF condition = NoObject
        THEN [m EXCEPT !.state = s1, !.frame.context = c1, !.frame.broke = TRUE]
        ELSE [m EXCEPT !.state = s1, !.frame.context = c1,
                       !.frame.current_task_name =
                            evaluate_condition(condition[1], task_result)]

\* LoopContinues that does not stop at the sentinel
LoopContinues_EndToo(current_task_name, iteration_count) ==
    iteration_count < max_iterations

\* LoopContinues with the budget off by one
LoopContinues_OneMore(current_task_name, iteration_count) ==
    current_task_name # "end" /\ iteration_count <= max_iterations

\* _run_flow, the while condition
LoopContinues(current_task_name, iteration_count) ==
    current_task_name # "end" /\ iteration_count < max_iterations

\* LoopStep that does not record the task it is about to invoke
LoopStep_NoCurrentTask(m, registry) ==
    IF m.frame.broke \/ ~LoopContinues(m.frame.current_task_name,
                                        m.frame.iteration_count)
    THEN AfterLoop(m)
    ELSE
      LET name == m.frame.current_task_name
          m1 == [m EXCEPT !.frame.iteration_count = @ + 1]
          task == Flow_get_task(m.frame.flow, name)
          result == PendingResult(name)
          task_func == TaskRegistry_get_task(registry, name)
      IN  IF task = NoObject
          THEN ExceptReturn(m1, TaskNotInFlowError(name))
          ELSE IF task_func = NoObject
               THEN [FinishStep(m1, KeyErrorResult(result, KeyErrorText(name)))
                        EXCEPT !.frame.pc = "loop"]
               ELSE [m1 EXCEPT !.frame.pc = "in_task",
                               !.frame.task_func = task_func[1],
                               !.frame.task_result = Some(result)]

\* LoopStep without the lookup of the task in the flow
LoopStep_NoLookup(m, registry) ==
    IF m.frame.broke \/ ~LoopContinues(m.frame.current_task_name, m.frame.iteration_count)
    THEN AfterLoop(m)
    ELSE
      LET name == m.frame.current_task_name
          m2 == [m EXCEPT !.frame.iteration_count = @ + 1, !.state.current_task = name]
          result == PendingResult(name)
          task_func == TaskRegistry_get_task(registry, name)
      IN  IF task_func = NoObject
          THEN [FinishStep(m2, KeyErrorResult(result, KeyErrorText(name)))
                   EXCEPT !.frame.pc = "loop"]
          ELSE [m2 EXCEPT !.frame.pc = "in_task",
                          !.frame.task_func = task_func[1],
                          !.frame.task_result = Some(result)]

\* _run_flow from the test of the while condition on: to the return of
\* execute_flow, to the await of a registered implementation (pc "in_task"),
\* or, the iteration of an unregistered task never awaiting, to the next test
\* of the while condition (pc "loop")
LoopStep(m, registry) ==
    IF m.frame.broke \/ ~LoopContinues(m.frame.current_task_name, m.frame.iteration_count)
    THEN AfterLoop(m)
    ELSE
      LET name == m.frame.current_task_name
          m1 == [m EXCEPT !.frame.iteration_count = @ + 1]
          task == Flow_get_task(m.frame.flow, name)
          m2 == [m1 EXCEPT !.state.current_task = name]
          result == PendingResult(name)
          task_func == TaskRegistry_get_task(registry, name)
      IN  IF task = NoObject
          THEN ExceptReturn(m1, TaskNotInFlowError(name))
          ELSE IF task_func = NoObject
               THEN [FinishStep(m2, KeyErrorResult(result, KeyErrorText(name)))
                        EXCEPT !.frame.pc = "loop"]
               ELSE [m2 EXCEPT !.frame.pc = "in_task",
                               !.frame.task_func = task_func[1],
                               !.frame.task_result = Some(result)]

\* FlowManager.get_execution_state
get_execution_state(store, execution_id) ==
    IF execution_id \in DOMAIN store THEN Some(store[execution_id]) ELSE NoObject

\* FlowManager.list_executions: the stored states (the order of the list, the
\* insertion order of the dict, is not kept)
list_executions(store) == {store[execution_id] : execution_id \in DOMAIN store}

\* StartRun creating the state as Pending, to be set Running by the loop
StartRun_Pending(execution_id, flow, context) ==
    [state |-> [execution_id |-> execution_id,
                flow_id |-> flow.id,
                flow_name |-> flow.name,
                status |-> PENDING,
                current_task |-> None,
                task_results |-> <<>>,
                started_at |-> Timestamp,
                completed_at |-> None,
                error |-> None],
     frame |-> [flow |-> flow,
                context |-> context,
                current_task_name |-> flow.start_task,
                iteration_count |-> 0,
                broke |-> FALSE,
                pc |-> "loop",
                task_func |-> None,
                task_result |-> NoObject,
                e |-> None],
     ret   |-> NoObject]

\* execute_flow up to the call of _run_flow, and _run_flow's first three lines
StartRun(execution_id, flow, context) ==
    [state |-> [execution_id |-> execution_id,
                flow_id |-> flow.id,
                flow_name |-> flow.name,
                status |-> RUNNING,
                current_task |-> None,
                task_results |-> <<>>,
                started_at |-> Timestamp,
                completed_at |-> None,
                error |-> None],
     frame |-> [flow |-> flow,
                context |-> context,
                current_task_name |-> flow.start_task,
                iteration_count |-> 0,
                broke |-> FALSE,
                pc |-> "loop",
                task_func |-> None,
                task_result |-> NoObject,
                e |-> None],
     ret   |-> NoObject]

\* execute_task and _run_flow from the return of the awaited implementation
\* to the next suspension of the run or to its return
ResumeStep(m, registry) ==
    LET done == Await(m.frame.task_func, m.frame.context)
        task_result == execute_task_resume(m.frame.task_result[1], done.out)
        m1 == [m EXCEPT !.frame.context = done.context,
                        !.frame.pc = "loop",
                        !.frame.task_func = None,
                        !.frame.task_result = NoObject]
    IN  LoopStep(FinishStep(m1, task_result), registry)

-----------------------------------------------------------------------------
(* Inputs *)

Task(name) == [name |-> name]

Condition(source_task, outcome, target_task_success, target_task_failure) ==
    [source_task |-> source_task, outcome |-> outcome,
     target_task_success |-> target_task_success,
     target_task_failure |-> target_task_failure]

\* the tasks lists of the flows submitted; "B" is in some, so a condition that
\* routes to "B" names a task of the flow or a task absent from it
TaskLists == {<<>>, <<Task("A")>>, <<Task("A"), Task("B")>>, <<Task("end")>>}

\* the conditions flows are built from: a retry loop on "A" that leaves for
\* "B" or for "end", the linear step of "A" to "B", the same with the expected
\* outcome 'failure', a step of "B" back to "A", and an outcome literal that
\* is neither 'success' nor 'failure'
CondPool ==
    {Condition("A", "success", "A", "B"),
     Condition("A", "success", "A", "end"),
     Condition("A", "success", "B", "end"),
     Condition("A", "failure", "B", "end"),
     Condition("B", "success", "end", "A"),
     Condition("A", "maybe", "B", "end")}

\* conditions lists of up to MaxConds different conditions, in every order;
\* two conditions of a list may have the same source_task
ConditionLists ==
    {cs \in UNION {[1..n -> CondPool] : n \in 0..MaxConds} :
        \A i, j \in 1..Len(cs) : i # j => cs[i] # cs[j]}

FlowInputs ==
    {[id |-> "flow_1", name |-> "Flow", start_task |-> s, tasks |-> ts, conditions |-> cs] :
        s \in Targets, ts \in TaskLists, cs \in ConditionLists}

\* what "B" is bound to in the registries considered
ImplementationsOfB == {"succeed"}

\* the registries after start-up: each name unbound or bound to an implementation
Registries ==
    {r \in UNION {[D -> Implementations] : D \in SUBSET Names} :
        "B" \in DOMAIN r => r["B"] \in ImplementationsOfB}

\* the context the caller passes: none, so `context or {}` is the empty dict
EmptyContext == <<>>

-----------------------------------------------------------------------------
(* app/models/auth.py and app/services/auth_service.py: users and roles *)

\* UserRole (str, Enum)
ADMIN == "admin"
USER == "user"
VIEWER == "viewer"
UserRole == {ADMIN, USER, VIEWER}

\* UserInDB, by the fields the access checks read
UserInDB(username, role) == [username |-> username, role |-> role, disabled |-> FALSE]

\* fake_users_db as the module defines it
DefaultUsers ==
    ("admin" :> UserInDB("admin", ADMIN)) @@
    ("user" :> UserInDB("user", USER)) @@
    ("viewer" :> UserInDB("viewer", VIEWER))

\* AuthService.get_user(username)
get_user(db, username) ==
    IF username \in DOMAIN db THEN Some(db[username]) ELSE NoObject

\* role_hierarchy.get(role, 0)
role_hierarchy(role) ==
    CASE role = VIEWER -> 1
      [] role = USER -> 2
      [] role = ADMIN -> 3
      [] OTHER -> 0

\* has_permission that wants a level above the required one
has_permission_Strict(user, required_role) ==
    role_hierarchy(user.role) > role_hierarchy(required_role)

\* AuthService.has_permission(user, required_role)
has_permission(user, required_role) ==
    role_hierarchy(user.role) >= role_hierarchy(required_role)

-----------------------------------------------------------------------------
(* The state machine *)

Init ==
    /\ TASK_REGISTRY \in Registries
    /\ execution_states = <<>>
    /\ frames = <<>>
    /\ returned = <<>>
    /\ calls = <<>>
    /\ fake_users_db = DefaultUsers

\* the run `id` as a record, and the store and locals with it written back
Run(id) == [state |-> execution_states[id], frame |-> frames[id], ret |-> returned[id]]

\* Publish with one context dict shared by all the runs
Publish_SharedContext(id, m) ==
    /\ execution_states' = (id :> m.state) @@ execution_states
    /\ frames' =
          [x \in DOMAIN frames \cup {id} |->
              IF x = id THEN m.frame
              ELSE [frames[x] EXCEPT !.context = m.frame.context]]
    /\ returned' = (id :> m.ret) @@ returned

\* Publish with one task_results list shared by all the stored states
Publish_SharedResults(id, m) ==
    /\ execution_states' =
          [x \in DOMAIN execution_states \cup {id} |->
              IF x = id THEN m.state
              ELSE [execution_states[x] EXCEPT !.task_results = m.state.task_results]]
    /\ frames' = (id :> m.frame) @@ frames
    /\ returned' = (id :> m.ret) @@ returned

\* Publish keeping only the state written last in the store
Publish_OnlyLatest(id, m) ==
    /\ execution_states' = (id :> m.state)
    /\ frames' = (id :> m.frame) @@ frames
    /\ returned' = (id :> m.ret) @@ returned

Publish(id, m) ==
    /\ execution_states' = (id :> m.state) @@ execution_states
    /\ frames' = (id :> m.frame) @@ frames
    /\ returned' = (id :> m.ret) @@ returned

\* FlowManager.execute_flow(flow) with a constructed Flow, up to the first
\* suspension of the run or to its return
ExecuteFlow(id, raw) ==
    /\ id \notin DOMAIN execution_states
    /\ FlowConstructs(raw)
    /\ Publish(id, LoopStep(StartRun(id, raw, EmptyContext), TASK_REGISTRY))
    /\ UNCHANGED <<TASK_REGISTRY, calls, fake_users_db>>

\* the awaited task implementation of run `id` finishes; execute_task builds
\* the TaskResult and the engine goes on to the next suspension or to the return
TaskReturns(id) ==
    /\ id \in DOMAIN frames
    /\ frames[id].pc = "in_task"
    /\ Publish(id, ResumeStep(Run(id), TASK_REGISTRY))
    /\ UNCHANGED <<TASK_REGISTRY, calls, fake_users_db>>

\* run `id`, whose last task was unregistered and so returned without a
\* suspension, goes on with the next test of the while condition
Continue(id) ==
    /\ id \in DOMAIN frames
    /\ frames[id].pc = "loop"
    /\ Publish(id, LoopStep(Run(id), TASK_REGISTRY))
    /\ UNCHANGED <<TASK_REGISTRY, calls, fake_users_db>>

Next ==
    \/ \E id \in ExecIds, raw \in FlowInputs : ExecuteFlow(id, raw)
    \/ \E id \in ExecIds : TaskReturns(id)
    \/ \E id \in ExecIds : Continue(id)

Spec == Init /\ [][Next]_vars

-----------------------------------------------------------------------------
(* Several runs interleaved on one FlowManager and one registry *)

\* runs started on the FlowManager
MaxRuns == 2

\* execution ids uuid4 is taken to generate, one for each run
ConcurrentIds == {"exec_" \o ToString(i) : i \in 1..MaxRuns}

\* flows without a cycle: A alone, A then B when A succeeded, A then B when
\* A failed
ConcurrentFlows ==
    {[id |-> "flow_1", name |-> "Flow", start_task |-> "A",
      tasks |-> <<Task("A"), Task("B")>>, conditions |-> cs] :
        cs \in {<<>>,
                <<Condition("A", "success", "B", "end")>>,
                <<Condition("A", "failure", "B", "end")>>}}

\* registries with B bound and A bound, to an implementation that may keep
\* its own key in the context, or unbound
ConcurrentRegistries ==
    {r \in Registries :
        /\ "B" \in DOMAIN r
        /\ "A" \in DOMAIN r => r["A"] \in {"succeed", "fail", "until_last"}}

InitConcurrent ==
    /\ TASK_REGISTRY \in ConcurrentRegistries
    /\ execution_states = <<>>
    /\ frames = <<>>
    /\ returned = <<>>
    /\ calls = <<>>
    /\ fake_users_db = DefaultUsers

NextConcurrent ==
    \/ \E id \in ConcurrentIds, raw \in ConcurrentFlows : ExecuteFlow(id, raw)
    \/ \E id \in ConcurrentIds : TaskReturns(id)
    \/ \E id \in ConcurrentIds : Continue(id)

SpecConcurrent == InitConcurrent /\ [][NextConcurrent]_vars

-----------------------------------------------------------------------------
(* app/api/routes.py: the read endpoints, called by a client the role       *)
(* check admitted, while a run is in progress or after it                  *)

\* reads made by clients
MaxReads == 2

\* status.HTTP_404_NOT_FOUND
HTTP_404_NOT_FOUND == 404

\* raise HTTPException(status_code=..., detail=...)
HTTPException(status_code, detail) == [status_code |-> status_code, detail |-> detail]

\* ids a client asks for: the one uuid4 is taken to generate and one it never generates
ReadIds == ExecIds \cup {"exec_0"}

\* get_execution_state that creates an entry for the id it does not find
GetExecutionState_Default(execution_id) ==
    /\ Len(calls) < MaxReads
    /\ LET state == StartRun(execution_id, CHOOSE f \in ConcurrentFlows : TRUE,
                             EmptyContext).state
           store == IF execution_id \in DOMAIN execution_states
                    THEN execution_states
                    ELSE (execution_id :> state) @@ execution_states
       IN  /\ calls' = Append(calls, [call |-> "get_execution_state",
                                      execution_id |-> execution_id,
                                      response |-> store[execution_id]])
           /\ execution_states' = store
    /\ UNCHANGED <<TASK_REGISTRY, frames, returned, fake_users_db>>

\* GET /flows/executions/{execution_id}
GetExecutionState(execution_id) ==
    /\ Len(calls) < MaxReads
    /\ LET execution_state == get_execution_state(execution_states, execution_id)
       IN  calls' = Append(calls,
                [call |-> "get_execution_state",
                 execution_id |-> execution_id,
                 response |->
                    IF execution_state = NoObject
                    THEN HTTPException(HTTP_404_NOT_FOUND,
                                       "Execution '" \o execution_id \o "' not found")
                    ELSE execution_state[1]])
    /\ UNCHANGED <<TASK_REGISTRY, execution_states, frames, returned, fake_users_db>>

\* GET /flows/executions
ListExecutions ==
    /\ Len(calls) < MaxReads
    /\ calls' = Append(calls, [call |-> "list_executions",
                               response |-> list_executions(execution_states)])
    /\ UNCHANGED <<TASK_REGISTRY, execution_states, frames, returned, fake_users_db>>

NextReaders ==
    \/ \E id \in ExecIds, raw \in ConcurrentFlows : ExecuteFlow(id, raw)
    \/ \E id \in ExecIds : TaskReturns(id)
    \/ \E id \in ExecIds : Continue(id)
    \/ \E execution_id \in ReadIds : GetExecutionState(execution_id)
    \/ ListExecutions

SpecReaders == InitConcurrent /\ [][NextReaders]_vars

-----------------------------------------------------------------------------
(* app/services/task_registry.py: the registry written while flows run *)

\* calls of register_task, TaskRegistry.register and TaskRegistry.clear made
MaxRegistryCalls == 2

\* implementations a client registers
RegisteredImplementations == {"succeed", "fail", "raise_key"}

\* register keeping the binding a name already has
TaskRegistry_register_KeepFirst(task_name, task_func) ==
    /\ Len(calls) < MaxRegistryCalls
    /\ TASK_REGISTRY' = TASK_REGISTRY @@ (task_name :> task_func)
    /\ calls' = Append(calls, [call |-> "register", task_name |-> task_name,
                               task_func |-> task_func])
    /\ UNCHANGED <<execution_states, frames, returned, fake_users_db>>

\* TaskRegistry.register(task_name, task_func)
TaskRegistry_register(task_name, task_func) ==
    /\ Len(calls) < MaxRegistryCalls
    /\ TASK_REGISTRY' = (task_name :> task_func) @@ TASK_REGISTRY
    /\ calls' = Append(calls, [call |-> "register", task_name |-> task_name,
                               task_func |-> task_func])
    /\ UNCHANGED <<execution_states, frames, returned, fake_users_db>>

\* @register_task(task_name) applied to func: func itself is bound, whether
\* or not the name was bound before
register_task(task_name, func) ==
    /\ Len(calls) < MaxRegistryCalls
    /\ TASK_REGISTRY' = (task_name :> func) @@ TASK_REGISTRY
    /\ calls' = Append(calls, [call |-> "register_task", task_name |-> task_name,
                               task_func |-> func])
    /\ UNCHANGED <<execution_states, frames, returned, fake_users_db>>

\* TaskRegistry.clear()
TaskRegistry_clear ==
    /\ Len(calls) < MaxRegistryCalls
    /\ TASK_REGISTRY' = <<>>
    /\ calls' = Append(calls, [call |-> "clear"])
    /\ UNCHANGED <<execution_states, frames, returned, fake_users_db>>

\* the registry before any task module is imported
InitRegistry ==
    /\ TASK_REGISTRY = <<>>
    /\ execution_states = <<>>
    /\ frames = <<>>
    /\ returned = <<>>
    /\ calls = <<>>
    /\ fake_users_db = DefaultUsers

NextRegistry ==
    \/ \E n \in Names, f \in RegisteredImplementations : TaskRegistry_register(n, f)
    \/ \E n \in Names, f \in RegisteredImplementations : register_task(n, f)
    \/ TaskRegistry_clear
    \/ \E id \in ExecIds, raw \in ConcurrentFlows : ExecuteFlow(id, raw)
    \/ \E id \in ExecIds : TaskReturns(id)
    \/ \E id \in ExecIds : Continue(id)

SpecRegistry == InitRegistry /\ [][NextRegistry]_vars

-----------------------------------------------------------------------------
(* app/api/dependencies.py, app/api/routes.py, app/api/auth_routes.py: the *)
(* HTTP endpoints behind the authentication and role dependencies         *)

\* requests clients send
MaxRequests == 1

\* fastapi.status
HTTP_200_OK == 200
HTTP_201_CREATED == 201
HTTP_400_BAD_REQUEST == 400
HTTP_401_UNAUTHORIZED == 401
HTTP_403_FORBIDDEN == 403
HTTP_500_INTERNAL_SERVER_ERROR == 500

\* a token create_access_token signed for `sub` and not yet expired
JWT(sub) == [decodes |-> TRUE, sub |-> sub]

\* a token jwt.decode raises JWTError for (bad signature, expired, no JWT)
InvalidToken == [decodes |-> FALSE, sub |-> None]

\* AuthService.decode_token(token): TokenData, or None for a token that does
\* not decode or carries no sub
decode_token(token) ==
    IF ~token.decodes
    THEN NoObject
    ELSE IF token.sub = None
    THEN NoObject
    ELSE Some([username |-> token.sub])

\* an HTTP request by the headers the dependencies may read
Request(authorization, x_api_key) ==
    [authorization |-> authorization, x_api_key |-> x_api_key]

\* what a dependency gives the route: the user, or the HTTPException raised
Okay(user) == [user |-> Some(user), error |-> NoObject]
Denied(exc) == [user |-> NoObject, error |-> Some(exc)]

\* HTTPBearer() answers a request without an Authorization header itself,
\* with 403 or, in later FastAPI releases, 401
NotAuthenticated == {HTTP_401_UNAUTHORIZED, HTTP_403_FORBIDDEN}

credentials_exception ==
    HTTPException(HTTP_401_UNAUTHORIZED, "Could not validate credentials")

\* User(**user_db.model_dump())
User(user_db) ==
    [username |-> user_db.username, role |-> user_db.role, disabled |-> user_db.disabled]

\* get_current_user(credentials = Depends(security))
get_current_user(request, db, not_authenticated) ==
    IF request.authorization = NoObject
    THEN Denied(HTTPException(not_authenticated, "Not authenticated"))
    ELSE LET token_data == decode_token(request.authorization[1])
         IN  IF token_data = NoObject
             THEN Denied(credentials_exception)
             ELSE LET user_db == get_user(db, token_data[1].username)
                  IN  IF user_db = NoObject
                      THEN Denied(credentials_exception)
                      ELSE IF user_db[1].disabled
                      THEN Denied(HTTPException(HTTP_403_FORBIDDEN,
                                                "User account is disabled"))
                      ELSE Okay(User(user_db[1]))

\* RoleChecker(required_role).__call__(user = Depends(get_current_user))
RoleChecker(required_role, request, db, not_authenticated) ==
    LET user == get_current_user(request, db, not_authenticated)
    IN  IF user.error # NoObject
        THEN user
        ELSE IF ~has_permission(user.user[1], required_role)
        THEN Denied(HTTPException(HTTP_403_FORBIDDEN,
                 "Insufficient permissions. Required role: " \o required_role))
        ELSE user

require_admin(request, db, not_authenticated) ==
    RoleChecker(ADMIN, request, db, not_authenticated)
require_user(request, db, not_authenticated) ==
    RoleChecker(USER, request, db, not_authenticated)
require_viewer(request, db, not_authenticated) ==
    RoleChecker(VIEWER, request, db, not_authenticated)

\* flow_request.get("flow")
dict_get(d, key) == IF key \in DOMAIN d THEN Some(d[key]) ELSE NoObject

\* `not flow_data`: None or an empty dict
Falsy(flow_data) == flow_data = NoObject \/ DOMAIN flow_data[1] = {}

\* str(e) of a starlette HTTPException: "<status_code>: <detail>", or the
\* empty string in the releases where the exception has no __str__
HTTPExceptionTexts(exc) == {ToString(exc.status_code) \o ": " \o exc.detail, ""}

\* str(e) of the pydantic ValidationError Flow(**flow_data) raises
ValidationErrorText == "1 validation error for Flow"

\* the call as `calls` keeps it
Call(call, request, args, response) ==
    [call |-> call, request |-> request, args |-> args, response |-> response]

\* the response a route returns a value with
Response(status_code, body) == [status_code |-> status_code, body |-> body]

\* the body of the response to a started run is the ExecutionResult
\* execute_flow returns when the run ends: returned[execution_id]
Awaited(execution_id) == [awaits |-> execution_id]

\* the HTTPException for a request body without a 'flow'
MissingFlow ==
    HTTPException(HTTP_400_BAD_REQUEST, "Request must contain a 'flow' object")

\* POST /flows/execute, up to the first suspension of the run it starts or to
\* its response
routes_execute_flow(id, request, flow_request, not_authenticated, text) ==
    /\ Len(calls) < MaxRequests
    /\ LET current_user == require_user(request, fake_users_db, not_authenticated)
           flow_data == dict_get(flow_request, "flow")
           Answer(response) ==
               /\ calls' = Append(calls, Call("execute_flow", request,
                                              flow_request, response))
               /\ UNCHANGED <<TASK_REGISTRY, execution_states, frames, returned,
                              fake_users_db>>
       IN  IF current_user.error # NoObject
           THEN Answer(current_user.error[1])
           ELSE IF Falsy(flow_data)
           THEN \* raised inside the try; HTTPException is no ValueError, so
                \* `except Exception` gets it
                /\ text \in HTTPExceptionTexts(MissingFlow)
                /\ Answer(HTTPException(HTTP_500_INTERNAL_SERVER_ERROR,
                                        "Flow execution failed: " \o text))
           ELSE IF ~FlowConstructs(flow_data[1])
           THEN Answer(HTTPException(HTTP_400_BAD_REQUEST,
                    "Invalid flow definition: " \o ValidationErrorText))
           ELSE /\ id \notin DOMAIN execution_states
                /\ Publish(id, LoopStep(StartRun(id, flow_data[1], EmptyContext),
                                        TASK_REGISTRY))
                /\ calls' = Append(calls, Call("execute_flow", request,
                                               flow_request,
                                               Response(HTTP_200_OK, Awaited(id))))
                /\ UNCHANGED <<TASK_REGISTRY, fake_users_db>>

\* GET /flows/executions/{execution_id}
routes_get_execution_state(request, execution_id, not_authenticated) ==
    /\ Len(calls) < MaxRequests
    /\ LET current_user == require_viewer(request, fake_users_db, not_authenticated)
           execution_state == get_execution_state(execution_states, execution_id)
       IN  calls' = Append(calls, Call("get_execution_state", request, execution_id,
                IF current_user.error # NoObject
                THEN current_user.error[1]
                ELSE IF execution_state = NoObject
                THEN HTTPException(HTTP_404_NOT_FOUND,
                                   "Execution '" \o execution_id \o "' not found")
                ELSE Response(HTTP_200_OK, execution_state[1])))
    /\ UNCHANGED <<TASK_REGISTRY, execution_states, frames, returned, fake_users_db>>

\* GET /flows/executions
routes_list_executions(request, not_authenticated) ==
    /\ Len(calls) < MaxRequests
    /\ LET current_user == require_viewer(request, fake_users_db, not_authenticated)
       IN  calls' = Append(calls, Call("list_executions", request, <<>>,
                IF current_user.error # NoObject
                THEN current_user.error[1]
                ELSE Response(HTTP_200_OK, list_executions(execution_states))))
    /\ UNCHANGED <<TASK_REGISTRY, execution_states, frames, returned, fake_users_db>>

\* AuthService.create_user: the new table, or no table when the ValueError
\* for a taken username is raised
create_user(db, username, role) ==
    IF username \in DOMAIN db
    THEN NoObject
    ELSE Some((username :> UserInDB(username, role)) @@ db)

\* POST /auth/register
auth_routes_register_user(request, user_create, not_authenticated) ==
    /\ Len(calls) < MaxRequests
    /\ LET current_user == require_admin(request, fake_users_db, not_authenticated)
           created == create_user(fake_users_db, user_create.username, user_create.role)
       IN  IF current_user.error # NoObject
           THEN /\ calls' = Append(calls, Call("register_user", request, user_create,
                                               current_user.error[1]))
                /\ UNCHANGED fake_users_db
           ELSE IF created = NoObject
           THEN /\ calls' = Append(calls, Call("register_user", request, user_create,
                        HTTPException(HTTP_400_BAD_REQUEST,
                            "Username '" \o user_create.username \o "' already exists")))
                /\ UNCHANGED fake_users_db
           ELSE /\ calls' = Append(calls, Call("register_user", request, user_create,
                        Response(HTTP_201_CREATED,
                                 User(created[1][user_create.username]))))
                /\ fake_users_db' = created[1]
    /\ UNCHANGED <<TASK_REGISTRY, execution_states, frames, returned>>

\* GET /auth/users
auth_routes_list_users(request, not_authenticated) ==
    /\ Len(calls) < MaxRequests
    /\ LET current_user == require_admin(request, fake_users_db, not_authenticated)
       IN  calls' = Append(calls, Call("list_users", request, <<>>,
                IF current_user.error # NoObject
                THEN current_user.error[1]
                ELSE Response(HTTP_200_OK,
                              {User(fake_users_db[u]) : u \in DOMAIN fake_users_db})))
    /\ UNCHANGED <<TASK_REGISTRY, execution_states, frames, returned, fake_users_db>>

\* the user names tokens are signed for: the default users and one that
\* exists once an admin registered it
TokenSubjects == DOMAIN DefaultUsers \cup {"newbie"}

\* the API keys the service description lists, and one it does not
DocumentedApiKeys == {"fm_admin_key_12345", "fm_user_key_67890"}
ApiKeys == {"fm_admin_key_12345", "invalid_key"}

\* requests: without credentials, with a bearer token, with an X-API-Key
\* header alone
Requests ==
    {Request(NoObject, NoObject)}
    \cup {Request(Some(JWT(u)), NoObject) : u \in TokenSubjects}
    \cup {Request(Some(InvalidToken), NoObject)}
    \cup {Request(NoObject, Some(k)) : k \in ApiKeys}

\* a flow the validators accept and one they reject (no tasks)
ApiFlow ==
    [id |-> "flow_1", name |-> "Flow", start_task |-> "A",
     tasks |-> <<Task("A"), Task("B")>>,
     conditions |-> <<Condition("A", "success", "B", "end")>>]
RejectedFlow == [ApiFlow EXCEPT !.tasks = <<>>]

\* request bodies: no 'flow', an empty 'flow', a valid and an invalid flow
FlowRequests == {<<>>, [flow |-> <<>>], [flow |-> ApiFlow], [flow |-> RejectedFlow]}

\* UserCreate bodies: a new user name, taken once it is registered
UserCreates == {[username |-> "newbie", role |-> VIEWER]}

\* the registries of the service: B bound, A bound or not
ApiRegistries == {r \in ConcurrentRegistries : "A" \in DOMAIN r => r["A"] = "succeed"}

\* the service after start-up, with the default users
InitApi ==
    /\ TASK_REGISTRY \in ApiRegistries
    /\ execution_states = <<>>
    /\ frames = <<>>
    /\ returned = <<>>
    /\ calls = <<>>
    /\ fake_users_db = DefaultUsers

NextApi ==
    \/ \E id \in ExecIds, request \in Requests, flow_request \in FlowRequests,
          na \in NotAuthenticated, text \in HTTPExceptionTexts(MissingFlow) :
            routes_execute_flow(id, request, flow_request, na, text)
    \/ \E request \in Requests, execution_id \in ExecIds, na \in NotAuthenticated :
            routes_get_execution_state(request, execution_id, na)
    \/ \E request \in Requests, na \in NotAuthenticated :
            routes_list_executions(request, na)
    \/ \E request \in Requests, user_create \in UserCreates, na \in NotAuthenticated :
            auth_routes_register_user(request, user_create, na)
    \/ \E request \in Requests, na \in NotAuthenticated :
            auth_routes_list_users(request, na)
    \/ \E id \in ExecIds : TaskReturns(id)
    \/ \E id \in ExecIds : Continue(id)

SpecApi == InitApi /\ [][NextApi]_vars

-----------------------------------------------------------------------------
(* Properties *)

Runs == DOMAIN frames

Finished(id) == frames[id].pc = "done"

Trace(id) == execution_states[id].task_results

\* task_name is the name of an element of the flow's tasks list
InFlow(id, task_name) ==
    \E i \in 1..Len(frames[id].flow.tasks) : frames[id].flow.tasks[i].name = task_name

\* the successor the flow's first condition on r.task_name gives for r's status
\* (stated on the two literals, not through evaluate_condition)
Successor(id, r) ==
    LET c == get_condition_for_task(frames[id].flow, r.task_name)[1]
    IN  CASE c.outcome = "success" /\ r.status = SUCCESS -> c.target_task_success
          [] c.outcome = "failure" /\ r.status = FAILURE -> c.target_task_success
          [] OTHER -> c.target_task_failure

HasCondition(id, task_name) ==
    get_condition_for_task(frames[id].flow, task_name) # NoObject

\* C1: every run of a constructed flow returns an ExecutionResult whose
\* trace holds at least 1 and at most max_iterations task results
C1_TraceLengthWithinBounds ==
    \A id \in Runs :
        Finished(id) =>
            /\ returned[id] # NoObject
            /\ Len(returned[id][1].execution_state.task_results) >= 1
            /\ Len(returned[id][1].execution_state.task_results) <= max_iterations

\* C2: no fault escapes execute_flow: a run that ended returned an
\* ExecutionResult; a run whose loop was left by a raise (the next task is not
\* 'end' and the loop was not left by break) has the fault recorded; and a
\* recorded fault is the text in the stored state's error, with status
\* Failure and completed_at set
C2_NoFaultEscapes ==
    \A id \in Runs :
        /\ Finished(id) => returned[id] # NoObject
        /\ (Finished(id) /\ frames[id].current_task_name # "end" /\ ~frames[id].broke)
                => frames[id].e # None
        /\ frames[id].e # None =>
                /\ Finished(id)
                /\ frames[id].e \in
                       {IterationError, TaskNotInFlowError(frames[id].current_task_name)}
                /\ execution_states[id].status = FAILURE
                /\ execution_states[id].error = frames[id].e
                /\ execution_states[id].completed_at # None
                /\ returned[id][1].status = FAILURE
                /\ returned[id][1].execution_state = execution_states[id]

\* C2 witness: a run aborted by a fault after at least one task has returned
C2_Witness ==
    \E id \in Runs :
        /\ frames[id].e = TaskNotInFlowError(frames[id].current_task_name)
        /\ Len(Trace(id)) >= 1
        /\ returned[id] # NoObject

\* C3: for consecutive entries r, r' of a trace, r.task_name has a condition
\* and r'.task_name is its target_task_success when r's status equals the
\* condition's outcome, its target_task_failure otherwise
C3_ConditionCorrectness ==
    \A id \in Runs :
        \A i \in 1..(Len(Trace(id)) - 1) :
            /\ HasCondition(id, Trace(id)[i].task_name)
            /\ Trace(id)[i + 1].task_name = Successor(id, Trace(id)[i])

\* C3 witness: a failed task whose condition expects 'failure' is followed by
\* the condition's target_task_success
C3_Witness ==
    \E id \in Runs :
        \E i \in 1..(Len(Trace(id)) - 1) :
            LET c == get_condition_for_task(frames[id].flow, Trace(id)[i].task_name)[1]
            IN  /\ c.outcome = "failure"
                /\ Trace(id)[i].status = FAILURE
                /\ c.target_task_success # c.target_task_failure
                /\ Trace(id)[i + 1].task_name = c.target_task_success

\* a run that ended while its next task is a task of the flow: its conditions
\* kept it from 'end', from a task without condition and from an absent task
EndedInsideFlow(id) ==
    /\ Finished(id)
    /\ ~frames[id].broke
    /\ frames[id].current_task_name # "end"
    /\ InFlow(id, frames[id].current_task_name)

\* C4, in every state: no run invokes more than max_iterations tasks, and a
\* run that ended inside the flow made exactly max_iterations invocations and
\* is Failure with the iteration error
C4_Guarded ==
    \A id \in Runs :
        /\ frames[id].iteration_count <= max_iterations
        /\ Len(Trace(id)) <= frames[id].iteration_count
        /\ EndedInsideFlow(id) =>
                /\ Len(Trace(id)) = max_iterations
                /\ frames[id].iteration_count = max_iterations
                /\ execution_states[id].status = FAILURE
                /\ execution_states[id].error = IterationError

\* C4, in every step of a run that has not ended: the run ends or starts one
\* more iteration
C4_Progress ==
    \A id \in Runs :
        ~Finished(id) /\ frames'[id] # frames[id] =>
            \/ frames'[id].pc = "done"
            \/ frames'[id].iteration_count = frames[id].iteration_count + 1

\* C4: cycle guard: a run never hangs in a cycle of the flow: its iterations
\* are counted up to max_iterations, where it is aborted as Failure with the
\* iteration error after exactly max_iterations invocations
C4_CycleGuard == [](C4_Guarded) /\ [][C4_Progress]_vars

\* C4 witness: a flow cycling on a task was aborted by the guard
C4_Witness ==
    \E id \in Runs :
        /\ EndedInsideFlow(id)
        /\ Len(Trace(id)) = max_iterations
        /\ execution_states[id].error = IterationError

\* C5: a run whose loop exits because the next task is 'end' or because the
\* task just executed has no condition is marked Success
C5_NormalExitIsSuccess ==
    \A id \in Runs :
        (Finished(id) /\ (frames[id].current_task_name = "end" \/ frames[id].broke))
            => execution_states[id].status = SUCCESS

\* a run that ended after a condition selected a next task name that is
\* neither 'end' nor the name of a task of the flow
SelectedAbsentTask(id) ==
    /\ Finished(id)
    /\ Len(Trace(id)) >= 1
    /\ ~frames[id].broke
    /\ frames[id].current_task_name # "end"
    /\ ~InFlow(id, frames[id].current_task_name)

\* the absent task was never invoked, and the trace ends with the step whose
\* condition selected it
TraceStopsAtSelection(id) ==
    LET last == Trace(id)[Len(Trace(id))]
    IN  /\ \A i \in 1..Len(Trace(id)) :
                Trace(id)[i].task_name # frames[id].current_task_name
        /\ HasCondition(id, last.task_name)
        /\ Successor(id, last) = frames[id].current_task_name
        /\ returned[id][1].execution_state.task_results = Trace(id)

\* C6 as claimed: no task absent from the flow is ever invoked, and a run
\* whose condition selected an absent task is Failure with the
\* task-not-found error, its trace stopping at the selecting step
C6_AbsentTaskIsNotFound ==
    \A id \in Runs :
      /\ \A i \in 1..Len(Trace(id)) : InFlow(id, Trace(id)[i].task_name)
      /\ SelectedAbsentTask(id) =>
            /\ execution_states[id].status = FAILURE
            /\ execution_states[id].error =
                    TaskNotInFlowError(frames[id].current_task_name)
            /\ TraceStopsAtSelection(id)

\* C6 amended: no task absent from the flow is ever invoked, and a run whose
\* condition selected an absent task is Failure, its trace stopping at the
\* selecting step; its error is the task-not-found error when the selecting
\* step was not the max_iterations-th of the run, and the iteration error
\* when it was
C6_AbsentTaskAborts ==
    \A id \in Runs :
      /\ \A i \in 1..Len(Trace(id)) : InFlow(id, Trace(id)[i].task_name)
      /\ SelectedAbsentTask(id) =>
            /\ execution_states[id].status = FAILURE
            /\ execution_states[id].error =
                    IF Len(Trace(id)) < max_iterations
                    THEN TaskNotInFlowError(frames[id].current_task_name)
                    ELSE IterationError
            /\ TraceStopsAtSelection(id)

\* C6 witness: a condition selected an absent task and the run ended with
\* the task-not-found error
C6_Witness ==
    \E id \in Runs :
        /\ SelectedAbsentTask(id)
        /\ execution_states[id].error = TaskNotInFlowError(frames[id].current_task_name)

\* C7: a run whose last executed task failed and has no condition ends with
\* status Success and no error
C7_FailedLastTaskIsSuccess ==
    \A id \in Runs :
        ( /\ Finished(id)
          /\ frames[id].broke
          /\ Trace(id)[Len(Trace(id))].status = FAILURE )
            => /\ execution_states[id].status = SUCCESS
               /\ execution_states[id].error = None

\* the last entry of a trace is followed up: its task has no condition and the
\* loop was left by break, or the next task is the one its condition selects
LastStepFollowed(id) ==
    LET last == Trace(id)[Len(Trace(id))]
    IN  IF HasCondition(id, last.task_name)
        THEN ~frames[id].broke /\ frames[id].current_task_name = Successor(id, last)
        ELSE frames[id].broke

\* C8: a failed task does not abort the run: whenever the trace ends with a
\* Failure result the engine follows that task's condition; a run that ended
\* Failure ended on a fatal error (iteration budget used up, or next task
\* absent from the flow); a run left at 'end' or for lack of a condition
\* within the budget is Success whatever its trace holds
C8_TaskFailureNeverAborts ==
    \A id \in Runs :
        /\ (Trace(id) # <<>> /\ Trace(id)[Len(Trace(id))].status = FAILURE)
                => LastStepFollowed(id)
        /\ \A i \in 1..(Len(Trace(id)) - 1) :
                Trace(id)[i].status = FAILURE =>
                    Trace(id)[i + 1].task_name = Successor(id, Trace(id)[i])
        /\ (Finished(id) /\ execution_states[id].status = FAILURE) =>
                \/ /\ execution_states[id].error = IterationError
                   /\ frames[id].iteration_count = max_iterations
                \/ /\ execution_states[id].error =
                            TaskNotInFlowError(frames[id].current_task_name)
                   /\ ~InFlow(id, frames[id].current_task_name)
        /\ ( /\ Finished(id)
             /\ frames[id].iteration_count < max_iterations
             /\ (frames[id].current_task_name = "end" \/ frames[id].broke) )
                => execution_states[id].status = SUCCESS

\* C8 witness: a Success run whose trace holds a failed task followed by the
\* task its condition selected
C8_Witness ==
    \E id \in Runs :
        /\ Finished(id)
        /\ execution_states[id].status = SUCCESS
        /\ \E i \in 1..(Len(Trace(id)) - 1) : Trace(id)[i].status = FAILURE

\* C9: the result of a task without registered implementation is in the trace
\* as a Failure with the task-not-found text and completed_at set, the run
\* is not aborted by it, and the engine follows the task's condition (the
\* registry is the one of the whole run: Spec registers nothing during a run)
C9_UnregisteredTaskRecovered ==
    \A id \in Runs :
        \A i \in 1..Len(Trace(id)) :
            Trace(id)[i].task_name \notin DOMAIN TASK_REGISTRY =>
                /\ Trace(id)[i].status = FAILURE
                /\ Trace(id)[i].error =
                        "Task not found: " \o KeyErrorText(Trace(id)[i].task_name)
                /\ Trace(id)[i].completed_at # None
                /\ IF i < Len(Trace(id))
                   THEN /\ HasCondition(id, Trace(id)[i].task_name)
                        /\ Trace(id)[i + 1].task_name = Successor(id, Trace(id)[i])
                   ELSE LastStepFollowed(id)

\* C9 witness: an unregistered task of the flow is in the trace, followed by
\* the task its condition selected
C9_Witness ==
    \E id \in Runs :
        \E i \in 1..(Len(Trace(id)) - 1) :
            /\ Trace(id)[i].task_name \notin DOMAIN TASK_REGISTRY
            /\ Trace(id)[i + 1].task_name # Trace(id)[i].task_name

\* implementations that raise or return something other than a dict with
\* status 'success' or 'failure'
Malformed == {"raise", "raise_key", "non_dict", "no_status", "bad_status"}

\* C10: the result of an implementation that raises or returns a malformed
\* outcome is a Failure with an error text
C10_MalformedOutcomeHasError ==
    \A id \in Runs :
        \A i \in 1..Len(Trace(id)) :
            ( /\ Trace(id)[i].task_name \in DOMAIN TASK_REGISTRY
              /\ TASK_REGISTRY[Trace(id)[i].task_name] \in Malformed )
                => /\ Trace(id)[i].status = FAILURE
                   /\ Trace(id)[i].error # None

\* the step of id in which the suspended implementation returns
Resumed(id) == id \in Runs /\ frames[id].pc = "in_task"

\* what the suspended implementation of id hands back to execute_task
task_output(id) == Await(frames[id].task_func, frames[id].context).out

\* r is built from the outcome out as the claim C11 says
FromOutcome(r, out) ==
    /\ r.status \in {SUCCESS, FAILURE}
    /\ r.status = SUCCESS <=> (out.kind = "dict" /\ out.status = "success")
    /\ out.kind = "dict" => (r.data = out.data /\ r.error = out.error)

\* C11: the result execute_task appends when an implementation returns is a
\* Success exactly when the implementation returned a map whose status is
\* 'success', a Failure otherwise, and carries the data and error of the map
\* when a map was returned; a result appended without an implementation
\* having run is the Failure of an unregistered task
C11_Step ==
    \A id \in DOMAIN frames' :
        LET old == IF id \in Runs THEN Len(Trace(id)) ELSE 0
            new == execution_states'[id].task_results
        IN  \A i \in (old + 1)..Len(new) :
                IF Resumed(id) /\ i = old + 1
                THEN /\ new[i].task_name = frames[id].current_task_name
                     /\ FromOutcome(new[i], task_output(id))
                ELSE /\ new[i].task_name \notin DOMAIN TASK_REGISTRY
                     /\ new[i].status = FAILURE

C11_StatusFromOutcome == [][C11_Step]_vars

\* C11 witness: a map with a status other than 'success' and 'failure' was
\* returned, and the result is a Failure carrying the map's data
C11_Witness ==
    \E id \in Runs :
        \E i \in 1..Len(Trace(id)) :
            /\ Trace(id)[i].task_name \in DOMAIN TASK_REGISTRY
            /\ TASK_REGISTRY[Trace(id)[i].task_name] = "bad_status"
            /\ Trace(id)[i].status = FAILURE
            /\ Trace(id)[i].data = Rows

\* the results execute_task has returned to the runs, in the store and in the
\* ExecutionResult handed back
ReturnedResults ==
    UNION { {Trace(id)[i] : i \in 1..Len(Trace(id))} : id \in Runs }
    \cup UNION { {returned[id][1].execution_state.task_results[i] :
                     i \in 1..Len(returned[id][1].execution_state.task_results)} :
                 id \in {x \in Runs : returned[x] # NoObject} }

\* C12: every TaskResult returned by execute_task has its completion time set
\* and a status of Success or Failure, never Pending or Running
C12_ResultsAreComplete ==
    \A r \in ReturnedResults :
        /\ r.completed_at # None
        /\ r.status \in {SUCCESS, FAILURE}

\* C12 witness: the result of an implementation that raised is in a trace,
\* completed, next to the Pending result of a task still suspended
C12_Witness ==
    \E id \in Runs :
        /\ \E r \in ReturnedResults :
              r.error = "Task execution failed: bad input" /\ r.completed_at = Timestamp
        /\ Resumed(id)
        /\ frames[id].task_result = Some(PendingResult(frames[id].current_task_name))

\* C13: no Flow object exists whose start_task names no task of its tasks list
C13_StartTaskIsATask ==
    \A id \in Runs : InFlow(id, frames[id].flow.start_task)

\* the Flow objects that exist: those handed to execute_flow
ConstructedFlows == {frames[id].flow : id \in Runs}

\* C14: every constructed Flow has at least one task, and each of its
\* conditions has the outcome literal 'success' or 'failure'; a definition
\* with an empty task list or another outcome literal yields no Flow
C14_ConstructedFlowIsValid ==
    \A flow \in ConstructedFlows :
        /\ Len(flow.tasks) >= 1
        /\ \A i \in 1..Len(flow.conditions) :
              flow.conditions[i].outcome \in {"success", "failure"}

\* C14 witness: a Flow was constructed from a definition with conditions of
\* both outcome literals
C14_Witness ==
    \E flow \in ConstructedFlows :
        /\ \E i \in 1..Len(flow.conditions) : flow.conditions[i].outcome = "success"
        /\ \E i \in 1..Len(flow.conditions) : flow.conditions[i].outcome = "failure"

\* a flow definition that fails one of the three validation rules
FailsValidation(flow) ==
    \/ flow.tasks = <<>>
    \/ ~ \E i \in 1..Len(flow.tasks) : flow.tasks[i].name = flow.start_task
    \/ \E i \in 1..Len(flow.conditions) :
          flow.conditions[i].outcome \notin {"success", "failure"}

\* C15: a request whose flow definition fails validation (empty task list,
\* start task not among the tasks, other outcome literal) begins no
\* execution: no step generates an execution id for it or puts a state of it
\* into the store
C15_Step ==
    \A id \in DOMAIN execution_states' :
        id \notin DOMAIN execution_states => ~FailsValidation(frames'[id].flow)

C15_InvalidFlowNotExecuted == [][C15_Step]_vars

\* C16: whenever a task of a run is suspended, get_execution_state and
\* list_executions find the run's state in the store under its execution_id
\* with status Running and no completion time; at the suspension of the
\* first task it is the initial state, no result and no error in it
C16_RunningWhileSuspended ==
    \A id \in Runs :
        Resumed(id) =>
            LET found == get_execution_state(execution_states, id)
            IN  /\ found # NoObject
                /\ found[1] \in list_executions(execution_states)
                /\ found[1].execution_id = id
                /\ found[1].status = RUNNING
                /\ found[1].completed_at = None
                /\ frames[id].iteration_count = 1 =>
                      (found[1].task_results = <<>> /\ found[1].error = None)

\* C16 witness: a run suspended in its second task after the first one
\* failed is found Running
C16_Witness ==
    \E id \in Runs :
        /\ Resumed(id)
        /\ frames[id].iteration_count = 2
        /\ Trace(id)[1].status = FAILURE
        /\ get_execution_state(execution_states, id)[1].status = RUNNING

\* C17: while a run is suspended inside the invocation of task T, the stored
\* state has current_task = T, and task_results holds one completed result
\* for each earlier step and none for the invocation in flight
C17_MidRunSnapshot ==
    \A id \in Runs :
        Resumed(id) =>
            LET found == get_execution_state(execution_states, id)[1]
                T == frames[id].task_result[1].task_name
            IN  /\ frames[id].task_result[1].status = PENDING
                /\ T = frames[id].current_task_name
                /\ found.current_task = T
                /\ Len(found.task_results) = frames[id].iteration_count - 1
                /\ \A i \in 1..Len(found.task_results) :
                      found.task_results[i].status # PENDING

\* C17 witness: a run is suspended in B after a step of A completed; the
\* stored state names B and holds A's result only
C17_Witness ==
    \E id \in Runs :
        /\ Resumed(id)
        /\ execution_states[id].current_task = "B"
        /\ Len(Trace(id)) = 1
        /\ Trace(id)[1].task_name = "A"

\* C18: after execute_flow has returned, the stored state's current_task is
\* null, whatever the outcome of the run
C18_CurrentTaskCleared ==
    \A id \in Runs :
        Finished(id) =>
            /\ execution_states[id].current_task = None
            /\ returned[id][1].execution_state.current_task = None

\* the indices of the failed results of a trace
FailedSteps(results) == {i \in 1..Len(results) : results[i].status = FAILURE}

\* C19: the message of the returned ExecutionResult states the number of
\* task results for a Success run; for a Failure run it names the first
\* failed task of the trace, and is the generic notice only when the trace
\* holds no failed task
C19_MessageFromFinalState ==
    \A id \in Runs :
        Finished(id) =>
            LET result == returned[id][1]
                state == result.execution_state
                failed == FailedSteps(state.task_results)
            IN  /\ result.status = SUCCESS =>
                      result.message = "Flow '" \o state.flow_name
                          \o "' completed successfully. Executed "
                          \o ToString(Len(state.task_results)) \o " task(s)."
                /\ (result.status = FAILURE /\ failed # {}) =>
                      \E i \in failed :
                          /\ \A j \in failed : i <= j
                          /\ result.message = "Flow '" \o state.flow_name
                                \o "' failed at task '"
                                \o state.task_results[i].task_name \o "'."
                /\ (result.status = FAILURE /\ failed = {}) =>
                      result.message = "Flow '" \o state.flow_name \o "' failed."

\* C20: a step whose TaskResult carries data (data not null, the empty map
\* included, whatever the status) leaves the data in the run's context under
\* '<task_name>_result', where it stays for the tasks invoked later: the
\* context maps the key to the data of the task's latest such step
C20_DataReachesContext ==
    \A id \in Runs :
        \A i \in 1..Len(Trace(id)) :
            LET key == Trace(id)[i].task_name \o "_result"
                later == {j \in (i + 1)..Len(Trace(id)) :
                             /\ Trace(id)[j].task_name = Trace(id)[i].task_name
                             /\ Trace(id)[j].data # None}
            IN  Trace(id)[i].data # None =>
                    /\ key \in DOMAIN frames[id].context
                    /\ later = {} => frames[id].context[key] = Trace(id)[i].data

\* the context of run id as the code between two suspensions finds it: the
\* one the resumed implementation hands back, the caller's for a new run
ContextBefore(id) ==
    IF id \notin Runs THEN EmptyContext
    ELSE IF Resumed(id)
         THEN Await(frames[id].task_func, frames[id].context).context
         ELSE frames[id].context

\* the results a step appends to the trace of run id
Appended(id) ==
    LET old == IF id \in Runs THEN Len(Trace(id)) ELSE 0
        new == execution_states'[id].task_results
    IN  {new[i] : i \in (old + 1)..Len(new)}

\* C21: execute_task and the engine write to a run's context only under the
\* key '<task>_result' of a task just executed, and only that task's data;
\* every other key is as the task implementation left it
C21_Step ==
    \A id \in DOMAIN frames' :
        LET before == ContextBefore(id)
            after == frames'[id].context
        IN  \A k \in DOMAIN before \cup DOMAIN after :
                \/ /\ k \in DOMAIN before
                   /\ k \in DOMAIN after
                   /\ after[k] = before[k]
                \/ /\ k \in DOMAIN after
                   /\ \E r \in Appended(id) :
                         k = r.task_name \o "_result" /\ after[k] = r.data

C21_ContextFrame == [][C21_Step]_vars

\* C21 witness: the context holds a key the implementation of A wrote next
\* to the data the engine stored for B
C21_Witness ==
    \E id \in Runs :
        /\ "attempts" \in DOMAIN frames[id].context
        /\ "B_result" \in DOMAIN frames[id].context
        /\ frames[id].context["B_result"] = Rows

\* s is a prefix of t
IsPrefix(s, t) == Len(s) <= Len(t) /\ \A i \in 1..Len(s) : t[i] = s[i]

\* C22: task_results is append-only and in invocation order: a step leaves
\* the old trace as a prefix of the new one, also when it aborts the run, and
\* the result of the invocation that was in flight comes first among the
\* results it appends, under the name of the task that was invoked
C22_Step ==
    \A id \in Runs :
        LET old == Trace(id)
            new == execution_states'[id].task_results
        IN  /\ id \in DOMAIN execution_states'
            /\ IsPrefix(old, new)
            /\ Resumed(id) =>
                  /\ Len(new) > Len(old)
                  /\ new[Len(old) + 1].task_name = frames[id].task_result[1].task_name
            /\ \A i \in (Len(old) + 1)..Len(new) :
                  i < Len(new) => new[i + 1].task_name = Successor(id, new[i])

C22_TraceAppendOnly == [][C22_Step]_vars

\* C22 witness: a run was aborted with the results of different tasks in
\* its trace, in the order of invocation
C22_Witness ==
    \E id \in Runs :
        /\ Finished(id)
        /\ execution_states[id].status = FAILURE
        /\ Len(Trace(id)) >= 2
        /\ Trace(id)[1].task_name = frames[id].flow.start_task
        /\ Trace(id)[2].task_name # Trace(id)[1].task_name

\* the iteration of run id that found its task missing from the flow and
\* raised before invoking anything
AbortedBeforeInvocation(id) ==
    /\ Finished(id)
    /\ frames[id].e = TaskNotInFlowError(frames[id].current_task_name)

\* the invocations of run id that have returned: one for each iteration
\* begun, less the one in flight and the one that raised before invoking
CompletedInvocations(id) ==
    frames[id].iteration_count
        - (IF Resumed(id) THEN 1 ELSE 0)
        - (IF AbortedBeforeInvocation(id) THEN 1 ELSE 0)

\* C23: a run has at most one invocation in flight, the one its frame is
\* suspended in, and task_results has exactly one entry for each invocation
\* that returned, whether the task succeeded or failed
C23_OneResultPerInvocation ==
    \A id \in Runs :
        /\ Len(frames[id].task_result) <= 1
        /\ Resumed(id) <=> frames[id].task_result # NoObject
        /\ Len(Trace(id)) = CompletedInvocations(id)

\* C23 witness: a run is suspended in its third invocation, the first two
\* having returned one a Failure and one a Success
C23_Witness ==
    \E id \in Runs :
        /\ Resumed(id)
        /\ frames[id].iteration_count = 3
        /\ \E i \in 1..2 : Trace(id)[i].status = FAILURE
        /\ \E i \in 1..2 : Trace(id)[i].status = SUCCESS

\* a stored state's status is one a run can have, and it is Running exactly
\* while execute_flow has not returned
C24_Status ==
    \A id \in Runs :
        /\ execution_states[id].status \in {RUNNING, SUCCESS, FAILURE}
        /\ execution_states[id].status = RUNNING <=> ~Finished(id)

\* a stored state whose status is Success or Failure is never written again
C24_Step ==
    \A id \in Runs :
        execution_states[id].status # RUNNING =>
            /\ id \in DOMAIN execution_states'
            /\ execution_states'[id] = execution_states[id]

\* C24: the status of a run follows Running -> {Success, Failure}: it is
\* Running while the run is in progress and never Pending, it is Success or
\* Failure when execute_flow has returned, and from then on the stored state
\* does not change in any field, so the status changes once
C24_StatusMachine == [](C24_Status) /\ [][C24_Step]_vars

\* C24 witness: a run that was suspended Running twice has ended Success
C24_Witness ==
    \E id \in Runs :
        /\ Finished(id)
        /\ execution_states[id].status = SUCCESS
        /\ Len(Trace(id)) = 2
        /\ \A i \in 1..2 : Trace(id)[i].task_name \in DOMAIN TASK_REGISTRY

\* one action of a run taken on its own record
RunStep(m, registry) ==
    CASE m.frame.pc = "in_task" -> ResumeStep(m, registry)
      [] m.frame.pc = "loop"    -> LoopStep(m, registry)
      [] OTHER                  -> m

\* the flows of ConcurrentFlows return within this many actions
SoloSteps == 4

RECURSIVE RunSteps(_, _, _)
RunSteps(m, registry, n) ==
    IF n = 0 THEN m ELSE RunSteps(RunStep(m, registry), registry, n - 1)

\* the run of flow under execution_id with nothing else running
RunAlone(execution_id, flow, registry) ==
    RunSteps(StartRun(execution_id, flow, EmptyContext), registry, SoloSteps)

\* a step writes the stored state, the locals and the result of one run at most
C25_Step ==
    \E id \in ConcurrentIds :
        \A other \in Runs \ {id} :
            /\ other \in DOMAIN execution_states'
            /\ execution_states'[other] = execution_states[other]
            /\ frames'[other] = frames[other]
            /\ returned'[other] = returned[other]

\* the trace of a run holds results of its own invocations only, those of
\* the run alone, and a finished run has the final state it has alone
C25_AsAlone ==
    \A id \in Runs :
        LET alone == RunAlone(id, frames[id].flow, TASK_REGISTRY)
        IN  /\ alone.frame.pc = "done"
            /\ IsPrefix(Trace(id), alone.state.task_results)
            /\ Finished(id) => /\ execution_states[id] = alone.state
                               /\ returned[id] = alone.ret

\* C25: runs interleaved on one FlowManager and one registry do not
\* interfere: each step mutates the state of one run only, in every
\* interleaving a run's task_results holds only the results of its own
\* invocations, and its final state is the one of the run alone
C25_NoInterference == [](C25_AsAlone) /\ [][C25_Step]_vars

\* C25 witness: two runs are suspended at the same time, one in its first
\* task and one in its second with the first one's result in its trace
C25_Witness ==
    \E a, b \in Runs :
        /\ Resumed(a) /\ Resumed(b)
        /\ Len(Trace(a)) = 0
        /\ Len(Trace(b)) = 1
        /\ frames[b].current_task_name = "B"

\* the runs a step starts: the calls of execute_flow made in it
Started == DOMAIN frames' \ DOMAIN frames

\* a step removes no entry of the store and puts no entry under an id in
\* use; a call of execute_flow adds one entry, every other step none
C26_Step ==
    /\ DOMAIN execution_states \subseteq DOMAIN execution_states'
    /\ DOMAIN execution_states' \ DOMAIN execution_states = Started
    /\ Cardinality(Started) <= 1
    /\ Cardinality(list_executions(execution_states')) =
          Cardinality(list_executions(execution_states)) + Cardinality(Started)

\* the entry under an id is the state of the run that was given the id, and
\* list_executions returns as many states as execute_flow was called
C26_OnePerCall ==
    /\ \A id \in DOMAIN execution_states :
          /\ id \in Runs
          /\ execution_states[id].execution_id = id
    /\ Cardinality(list_executions(execution_states)) = Cardinality(Runs)

ReadsOf(execution_id) ==
    {i \in 1..Len(calls) : /\ calls[i].call = "get_execution_state"
                           /\ calls[i].execution_id = execution_id}

\* a read changes neither the store nor a run, and returns what the store
\* holds: the state under the id, not-found for an id without one, all the
\* states for the list
C27_Step ==
    calls' # calls =>
        /\ UNCHANGED <<TASK_REGISTRY, execution_states, frames, returned>>
        /\ Len(calls') = Len(calls) + 1
        /\ LET read == calls'[Len(calls')]
           IN  IF read.call = "list_executions"
               THEN read.response = {execution_states[id] : id \in DOMAIN execution_states}
               ELSE IF read.execution_id \in DOMAIN execution_states
                    THEN read.response = execution_states[read.execution_id]
                    ELSE /\ read.response.status_code = HTTP_404_NOT_FOUND
                         /\ read.response.detail =
                               "Execution '" \o read.execution_id \o "' not found"

\* the reads of a run's state made after the run completed all returned
\* the same state, the one in the store
C27_SameAfterCompletion ==
    \A id \in ReadIds :
        \A i \in ReadsOf(id) :
            ( /\ "status" \in DOMAIN calls[i].response
              /\ calls[i].response.status # RUNNING )
                => calls[i].response = execution_states[id]

\* C27: get_execution_state and list_executions are pure reads: they change
\* neither the store nor a stored state, an id without a state is reported
\* not found, and the reads of a completed run return identical state
C27_PureReads == [](C27_SameAfterCompletion) /\ [][C27_Step]_vars

\* C27 witness: the state of a run was read twice after the run completed,
\* with two results in its trace
C27_Witness ==
    \E id \in Runs :
        /\ Cardinality(ReadsOf(id)) = 2
        /\ \A i \in ReadsOf(id) : calls[i].response = execution_states[id]
        /\ Finished(id)
        /\ Len(Trace(id)) = 2

\* the registrations of task_name among the calls made since the last clear
Registrations(task_name) ==
    {i \in 1..Len(calls) :
        /\ calls[i].call \in {"register", "register_task"}
        /\ calls[i].task_name = task_name
        /\ \A j \in (i + 1)..Len(calls) : calls[j].call # "clear"}

\* what the last writer bound task_name to, if anyone did since the last clear
LastWriter(task_name) ==
    IF Registrations(task_name) = {} THEN NoObject
    ELSE Some(calls[CHOOSE i \in Registrations(task_name) :
                        \A j \in Registrations(task_name) : j <= i].task_func)

\* the lookup of every name gives the binding of its last writer, and fails
\* for a name nobody registered since the registry was empty
C28_Lookup ==
    \A n \in Names : TaskRegistry_get_task(TASK_REGISTRY, n) = LastWriter(n)

\* an invocation awaits the last writer's implementation, and the invocation
\* of a name without a binding gives the not-found result
C28_Step ==
    \A id \in DOMAIN frames' :
        /\ ( /\ frames'[id].pc = "in_task"
             /\ id \in Runs => frames'[id] # frames[id] )
              => LastWriter(frames'[id].current_task_name) = Some(frames'[id].task_func)
        /\ \A r \in Appended(id) :
              r.error = "Task not found: " \o KeyErrorText(r.task_name)
                  <=> ( /\ LastWriter(r.task_name) = NoObject
                        /\ ~(Resumed(id) /\ r.task_name = frames[id].task_result[1].task_name) )

\* C28: registry bindings are last-writer-wins: registering a bound name
\* replaces its binding and leaves the other names' bindings, lookup and
\* invocation use the binding written last, and the lookup of a name never
\* registered, or not since a clear, fails with not-found
C28_LastWriterWins == [](C28_Lookup) /\ [][C28_Step]_vars

\* C28 witness: A was registered twice with different implementations and a
\* run then invoked the second one
C28_Witness ==
    /\ Len(calls) = 2
    /\ calls[1].call = "register" /\ calls[1].task_name = "A"
    /\ calls[2].call = "register" /\ calls[2].task_name = "A"
    /\ calls[1].task_func = "fail" /\ calls[2].task_func = "succeed"
    /\ \E id \in Runs : Len(Trace(id)) >= 1 /\ Trace(id)[1].status = SUCCESS

\* the conditions of the flow of run id declared for task_name, by position
Declared(id, task_name) ==
    {k \in 1..Len(frames[id].flow.conditions) :
        frames[id].flow.conditions[k].source_task = task_name}

\* the task the condition at position k selects after the result r
Selected(id, k, r) ==
    IF r.status = frames[id].flow.conditions[k].outcome
    THEN frames[id].flow.conditions[k].target_task_success
    ELSE frames[id].flow.conditions[k].target_task_failure

\* the task of run id that follows the i-th entry of its trace
Following(id, i) ==
    IF i < Len(Trace(id)) THEN Trace(id)[i + 1].task_name
    ELSE frames[id].current_task_name

\* C29: when a flow declares several conditions for one source_task, the
\* transition out of that task is the one of the condition declared first,
\* whatever the later ones say
C29_FirstConditionOnly ==
    \A id \in Runs :
        \A i \in 1..Len(Trace(id)) :
            LET declared == Declared(id, Trace(id)[i].task_name)
            IN  \A k \in declared :
                    (\A j \in declared : k <= j)
                        => Following(id, i) = Selected(id, k, Trace(id)[i])

\* C29 witness: a task with two conditions that select different tasks for
\* its result was executed, and the run went where the first one says
C29_Witness ==
    \E id \in Runs :
        \E i \in 1..Len(Trace(id)) :
            \E k, j \in Declared(id, Trace(id)[i].task_name) :
                /\ k < j
                /\ Selected(id, k, Trace(id)[i]) # Selected(id, j, Trace(id)[i])
                /\ Following(id, i) = Selected(id, k, Trace(id)[i])
                /\ i < Len(Trace(id))

\* the chains T1 -> ... -> Tk over the task names of the model
Chains ==
    {ch \in UNION {[1..k -> Names] : k \in 1..Cardinality(Names)} :
        \A i, j \in 1..Len(ch) : i # j => ch[i] # ch[j]}

\* flow is the chain ch: it starts at T1, holds the tasks of ch, and its
\* conditions are one per link, with outcome 'success' and the next task as
\* target_task_success, none for Tk
IsChain(flow, ch) ==
    /\ flow.start_task = ch[1]
    /\ \A i \in 1..Len(ch) : \E t \in 1..Len(flow.tasks) : flow.tasks[t].name = ch[i]
    /\ Len(flow.conditions) = Len(ch) - 1
    /\ \A i \in 1..(Len(ch) - 1) :
          /\ flow.conditions[i].source_task = ch[i]
          /\ flow.conditions[i].outcome = "success"
          /\ flow.conditions[i].target_task_success = ch[i + 1]

\* C30: linear success: in the run of a chain T1 -> ... -> Tk whose tasks
\* all return 'success', the trace names T1, T2, ... in that order, and the
\* run ends with status Success and exactly T1..Tk in task_results
C30_LinearSuccess ==
    \A id \in Runs :
        \A ch \in Chains :
            ( /\ IsChain(frames[id].flow, ch)
              /\ \A i \in 1..Len(Trace(id)) : Trace(id)[i].status = SUCCESS )
                => /\ Len(Trace(id)) <= Len(ch)
                   /\ \A i \in 1..Len(Trace(id)) : Trace(id)[i].task_name = ch[i]
                   /\ Finished(id) =>
                         /\ Len(Trace(id)) = Len(ch)
                         /\ execution_states[id].status = SUCCESS
                         /\ returned[id][1].status = SUCCESS

\* C30 witness: the chain A -> B ran to its end, both tasks succeeding
C30_Witness ==
    \E id \in Runs :
        /\ IsChain(frames[id].flow, <<"A", "B">>)
        /\ Finished(id)
        /\ Len(Trace(id)) = 2
        /\ Trace(id)[1].status = SUCCESS /\ Trace(id)[2].status = SUCCESS
        /\ execution_states[id].status = SUCCESS

-----------------------------------------------------------------------------
(* Access control *)

\* the hierarchy viewer < user < admin as positions
Hierarchy == <<VIEWER, USER, ADMIN>>
Level(role) == CHOOSE i \in 1..Len(Hierarchy) : Hierarchy[i] = role

\* the role each endpoint asks for
RequiredRole ==
    [list_executions |-> VIEWER, get_execution_state |-> VIEWER,
     execute_flow |-> USER, list_users |-> ADMIN, register_user |-> ADMIN]

\* the request carries a bearer token that decodes and names a user of `db`
Authenticated(request, db) ==
    /\ request.authorization # NoObject
    /\ request.authorization[1].decodes
    /\ request.authorization[1].sub \in DOMAIN db

\* the role of the user an authenticated request is made by
RoleOf(request, db) == db[request.authorization[1].sub].role

\* the response turns the request away for its credentials or its role
Rejected(response) == response.status_code \in {HTTP_401_UNAUTHORIZED, HTTP_403_FORBIDDEN}

\* the step answers a request: the call it adds
Answers == Len(calls') = Len(calls) + 1
Answered == calls'[Len(calls')]

\* C31: role-based access is monotone in the hierarchy viewer < user <
\* admin: every request of an authenticated user is turned away exactly
\* when the level of the user's role is below the level the endpoint asks
\* for (viewer for listing and reading executions, user for executing a
\* flow, admin for listing and registering users), and then with 403
C31_Step ==
    Answers /\ Authenticated(Answered.request, fake_users_db) =>
        LET below == Level(RoleOf(Answered.request, fake_users_db))
                        < Level(RequiredRole[Answered.call])
        IN  /\ Rejected(Answered.response) <=> below
            /\ below => Answered.response.status_code = HTTP_403_FORBIDDEN
C31_RoleHierarchy == [][C31_Step]_vars

\* a viewer was refused the execution of a flow
C31_Witness ==
    \E i \in 1..Len(calls) :
        /\ calls[i].call = "execute_flow"
        /\ calls[i].request = Request(Some(JWT("viewer")), NoObject)
        /\ calls[i].response.status_code = HTTP_403_FORBIDDEN

\* C32: a request to a protected endpoint that carries no bearer token but
\* an X-API-Key header is served when the key is one of the valid keys (such
\* as fm_admin_key_12345) and turned away with 401 or 403 when it is not
C32_ApiKeyAuthenticates ==
    \A i \in 1..Len(calls) :
        /\ calls[i].request.authorization = NoObject
        /\ calls[i].request.x_api_key # NoObject
        => (Rejected(calls[i].response)
                <=> calls[i].request.x_api_key[1] \notin DocumentedApiKeys)

-----------------------------------------------------------------------------
(* The execute endpoint *)

\* C33: a POST to /flows/execute that passed the role check and whose body
\* has no 'flow' object (missing or empty) is answered with status 400
\* "Request must contain a 'flow' object", never with a 500
C33_MissingFlowIs400 ==
    \A i \in 1..Len(calls) :
        /\ calls[i].call = "execute_flow"
        /\ ~Rejected(calls[i].response)
        /\ Falsy(dict_get(calls[i].args, "flow"))
        => /\ calls[i].response.status_code = HTTP_400_BAD_REQUEST
           /\ calls[i].response.detail = "Request must contain a 'flow' object"

-----------------------------------------------------------------------------
(* Faults of task implementations *)

\* the implementations that raise, whatever the context
Raising == {impl \in Implementations : Await(impl, EmptyContext).out.kind \notin {"dict", "other"}}

\* C34: a TaskResult's error says 'Task not found' only if the task name
\* had no registered implementation when it was invoked; a registered
\* implementation that raises any fault, a key-lookup fault included, is
\* reported as 'Task execution failed: <fault>'
C34_NotFoundOnlyIfUnregistered ==
    \A id \in Runs : \A i \in 1..Len(Trace(id)) :
        LET r == Trace(id)[i]
        IN  /\ r.error = "Task not found: " \o KeyErrorText(r.task_name)
                => r.task_name \notin DOMAIN TASK_REGISTRY
            /\ /\ r.task_name \in DOMAIN TASK_REGISTRY
               /\ TASK_REGISTRY[r.task_name] \in Raising
               => r.error = "Task execution failed: "
                      \o Await(TASK_REGISTRY[r.task_name], EmptyContext).out.error

-----------------------------------------------------------------------------
(* The stored state seen by other coroutines *)

\* C35: in every stored FlowExecutionState another coroutine can observe,
\* at a suspension point of its run or after the run's completion, status
\* is Running if and only if completed_at is null, and status is Failure if
\* and only if error is non-null
C35_StatusFields ==
    \A id \in DOMAIN execution_states :
        LET s == execution_states[id]
        IN  /\ s.status = RUNNING <=> s.completed_at = None
            /\ s.status = FAILURE <=> s.error # None

\* a run that made a step and then failed is stored with its fault's text
C35_Witness ==
    \E id \in Runs :
        /\ Finished(id)
        /\ Len(Trace(id)) >= 1
        /\ execution_states[id].status = FAILURE
        /\ execution_states[id].error = frames[id].e
        /\ execution_states[id].completed_at # None

-----------------------------------------------------------------------------
(* The tasks a run invokes *)

\* C36: every entry of a run's task_results names a task of the flow's
\* tasks list, a non-empty trace starts with flow.start_task, and the task a
\* run is suspended in is a task of the flow and never the sentinel 'end'
C36_OnlyFlowTasks ==
    \A id \in Runs :
        LET names == {frames[id].flow.tasks[k].name : k \in 1..Len(frames[id].flow.tasks)}
            trace == Trace(id)
        IN  /\ \A i \in 1..Len(trace) :
                    trace[i].task_name \in names /\ trace[i].task_name # "end"
            /\ Len(trace) >= 1 => trace[1].task_name = frames[id].flow.start_task
            /\ frames[id].pc = "in_task" =>
                    /\ frames[id].current_task_name \in names
                    /\ frames[id].current_task_name # "end"
                    /\ Len(trace) = 0 =>
                            frames[id].current_task_name = frames[id].flow.start_task

\* a finished run that invoked the start task and then another task of the flow
C36_Witness ==
    \E id \in Runs :
        /\ Finished(id)
        /\ Len(Trace(id)) = 2
        /\ Trace(id)[1].task_name = frames[id].flow.start_task
        /\ Trace(id)[2].task_name # Trace(id)[1].task_name
        /\ InFlow(id, Trace(id)[2].task_name)

-----------------------------------------------------------------------------
(* Contexts of interleaved runs *)

\* the entries of run id's trace made by an implementation that counts its
\* calls in the context
Counted(id) ==
    {i \in 1..Len(Trace(id)) :
        /\ Trace(id)[i].task_name \in DOMAIN TASK_REGISTRY
        /\ TASK_REGISTRY[Trace(id)[i].task_name] \in {"until_last", "until_bound"}}

\* C37: contexts of interleaved runs, each started without a context of the
\* caller, are isolated: a run's context has a '<T>_result' entry only for a
\* task T the same run executed earlier, holding data of that execution, and
\* the key an implementation keeps there counts the calls of that run only
C37_ContextIsolation ==
    \A id \in Runs :
        LET context == frames[id].context
            trace == Trace(id)
        IN  \A k \in DOMAIN context :
                IF k = "attempts"
                THEN context[k] = Cardinality(Counted(id))
                ELSE \E i \in 1..Len(trace) :
                        /\ k = trace[i].task_name \o "_result"
                        /\ context[k] = trace[i].data

\* C37 witness: one run holds the result of its task A while another run,
\* started later and suspended in its first task, has an empty context
C37_Witness ==
    \E a, b \in Runs :
        /\ a # b
        /\ "A_result" \in DOMAIN frames[a].context
        /\ Resumed(b)
        /\ Len(Trace(b)) = 0
        /\ DOMAIN frames[b].context = {}

-----------------------------------------------------------------------------
(* Implementations resolved at each step *)

\* the texts of the KeyErrors the model raises
KeyErrorTexts ==
    {KeyErrorText(n) : n \in Targets} \cup {Await("raise_key", EmptyContext).out.error}

\* r is a 'not found' TaskResult
NotFound(r) == r.error \in {"Task not found: " \o t : t \in KeyErrorTexts}

\* C38: task implementations are resolved at each step, not at run start:
\* whatever was registered or cleared while the run was suspended, a step
\* invokes the binding the registry has when the step is made, a name
\* without a binding at that time yields a Failure 'not found' TaskResult,
\* and the result of an invocation whose name was registered is never a
\* 'not found' TaskResult
C38_Step ==
    \A id \in DOMAIN frames' :
        LET old == IF id \in Runs THEN Len(Trace(id)) ELSE 0
            new == execution_states'[id].task_results
            resumed == id \in Runs /\ Resumed(id)
            stepped == id \notin Runs \/ frames'[id] # frames[id]
        IN  /\ stepped /\ frames'[id].pc = "in_task" =>
                    TaskRegistry_get_task(TASK_REGISTRY, frames'[id].current_task_name)
                        = Some(frames'[id].task_func)
            /\ \A i \in (old + 1)..Len(new) :
                    IF resumed /\ i = old + 1
                    THEN ~NotFound(new[i])
                    ELSE /\ NotFound(new[i])
                         /\ new[i].status = FAILURE
                         /\ new[i].task_name \notin DOMAIN TASK_REGISTRY
C38_ResolvedAtEachStep == [][C38_Step]_vars

-----------------------------------------------------------------------------
(* The returned ExecutionResult *)

\* C39: the status of a returned ExecutionResult equals the status of the
\* FlowExecutionState it carries and of the state stored under the same
\* execution_id, and is Success or Failure, never Running or Pending, on the
\* normal and on the fault return path
C39_ReturnedStatus ==
    \A id \in DOMAIN returned :
        returned[id] # NoObject =>
            LET result == returned[id][1]
            IN  /\ result.status \in {SUCCESS, FAILURE}
                /\ result.status = result.execution_state.status
                /\ result.execution_id \in DOMAIN execution_states
                /\ result.status = execution_states[result.execution_id].status

\* C39 witness: a run returned through the fault path, its result, the state
\* in the result and the stored state all Failure
C39_Witness ==
    \E id \in DOMAIN returned :
        /\ returned[id] # NoObject
        /\ frames[id].e # None
        /\ returned[id][1].status = FAILURE
        /\ returned[id][1].execution_state.status = FAILURE
        /\ execution_states[id].status = FAILURE

=============================================================================
